---------------------------- MODULE Spec2Model ----------------------------
(***************************************************************************)
(* Dou Dizhu core: cards, deck and hand (src/game/cards.py), the rule      *)
(* engine (src/game/rules.py), the player plumbing (src/game/player.py)    *)
(* and the game controller (src/game/game_state.py).                       *)
(***************************************************************************)
EXTENDS Integers, Sequences, FiniteSets, TLC

(***************************************************************************)
(* Bounds of the model (none of them is a constant of the program).        *)
(***************************************************************************)
\* how many of the permutations in ShuffleOrders random.shuffle may produce
NumShuffles == 2
\* play_turn is called while round_count < MaxRounds
MaxRounds == 3
\* answers name the 1..MaxTake lowest or highest cards of the hand
MaxTake == 1
\* answers name the whole hand but its 0..MaxKeep highest cards
MaxKeep == 2
\* how many times start_game may deal to the same Player objects
MaxDeals == 2
\* how many answers that make play_turn raise the players give
MaxRaises == 1
\* how many times get_game_result is called on an ended game
MaxResults == 2
\* Hand objects of the Hand specification hold at most MaxHand cards
MaxHand == 3
\* card lists passed to a Hand method have at most MaxRequest cards
MaxRequest == 3
\* RuleEngine specification: the longest group of cards that is classified
MaxGroup == 10
\* Deck specification: random.shuffle moves the card at place p to the place
\* of p * stride + shift, for the strides up to MaxStride that reach every
\* place and the shifts up to MaxShift
MaxStride == 17
MaxShift == 53
\* Play specification: play_turn is called while round_count < MaxPlayRounds
MaxPlayRounds == 22
\* Play specification: a player keeps the MaxPlayHand highest cards of the
\* hand for a second play
MaxPlayHand == 1
\* Play specification: how many times the players answer the empty list
MaxEmpty == 2

(***************************************************************************)
(* Optional values: None is <<>>, a present value x is <<x>>.              *)
(***************************************************************************)
None == <<>>

Some(x) == <<x>>

Get(o) == o[1]

Min2(a, b) == IF a < b THEN a ELSE b

SeqToSet(s) == {s[i] : i \in DOMAIN s}

(***************************************************************************)
(* cards.py: Card, Suit, Deck                                              *)
(***************************************************************************)
Suit == <<"spades", "hearts", "diamonds", "clubs">>

Card(value, suit) == [value |-> value, suit |-> suit]

\* Deck._create_deck: the four suits in order, 3..15 in each, then the jokers
create_deck ==
    [i \in 1..54 |->
        IF i <= 52 THEN Card(3 + ((i - 1) % 13), Suit[((i - 1) \div 13) + 1])
        ELSE Card(16 + (i - 53), "none")]

\* the list a, a + 1, ..., b
Range(a, b) == [i \in 1..(b - a + 1) |-> a + i - 1]

\* the deck positions of a full deck that are not in the set S, ascending
Others(S) == SelectSeq(Range(1, 54), LAMBDA i : i \notin S)

\* Orders random.shuffle may leave the deck in, each a permutation of 1..54
\* (position p of the shuffled deck holds card ShuffleOrders[k][p] of the
\* fresh deck):
\*  1. seat 0 is dealt the spade and heart pairs 3..10 and the spade J, the
\*     bottom cards are the heart J and the spade and heart K;
\*  2. every 13th card: seat 0 is dealt the four 3s, As, Qs and 10s;
\*  3. the deck as reset() leaves it;
\*  4. every 5th card.
ShuffleOrders ==
    << Range(1, 9) \o Range(14, 21)
          \o Others((1..9) \cup (14..21) \cup {22, 11, 24}) \o <<22, 11, 24>>,
       [p \in 1..54 |-> (((p - 1) * 13) % 54) + 1],
       [p \in 1..54 |-> p],
       [p \in 1..54 |-> (((p - 1) * 5) % 54) + 1] >>

\* Deck.shuffle: one of the first NumShuffles orders
Shuffles == {ShuffleOrders[k] : k \in 1..Min2(NumShuffles, Len(ShuffleOrders))}

shuffle(cards, order) == [p \in 1..Len(cards) |-> cards[order[p]]]

\* a deal whose slices start one card early
deal_cards_one_early(cards) ==
    << SubSeq(cards, 1, 17), SubSeq(cards, 17, 33),
       SubSeq(cards, 34, 50), SubSeq(cards, 52, 54) >>

\* Deck.deal_cards on a 54-card deck: (player1, player2, player3, bottom)
deal_cards(cards) ==
    << SubSeq(cards, 1, 17), SubSeq(cards, 18, 34),
       SubSeq(cards, 35, 51), SubSeq(cards, 52, 54) >>

(***************************************************************************)
(* cards.py: Hand (the list Hand.cards)                                    *)
(***************************************************************************)
\* the place list.sort(key=value), a stable sort, gives the card at place i:
\* behind the cards of lower value and the earlier cards of the same value
SortedPlace(list, i) ==
    Cardinality({j \in DOMAIN list : list[j].value < list[i].value})
    + Cardinality({j \in 1..i : list[j].value = list[i].value})

\* Hand.sort_cards
sort_cards(list) ==
    [r \in DOMAIN list |-> list[CHOOSE i \in DOMAIN list : SortedPlace(list, i) = r]]

\* Hand.add_cards
add_cards(hand, cards) == sort_cards(hand \o cards)

\* `card in self.cards`
InList(card, list) == card \in {list[j] : j \in DOMAIN list}

\* a membership check that accepts every request
has_cards_any(hand, cards) == TRUE

\* Hand.has_cards
has_cards(hand, cards) == \A i \in DOMAIN cards : InList(cards[i], hand)

\* list.count(card)
CountIn(list, card) == Cardinality({j \in DOMAIN list : list[j] = card})

\* list.remove(card) for each card of `removed` in turn, every one of them in
\* the list when its turn comes: each call drops the first element equal to
\* its card, so an element goes when it is among the first CountIn(removed, .)
\* elements equal to it
ListRemoveAll(list, removed) ==
    LET tagged == [j \in DOMAIN list |-> <<j, list[j]>>]
        stays(p) == Cardinality({k \in 1..p[1] : list[k] = p[2]}) > CountIn(removed, p[2])
        kept == SelectSeq(tagged, stays)
    IN  [i \in DOMAIN kept |-> kept[i][2]]

\* the second loop of Hand.remove_cards: list.remove raises ValueError at the
\* first card that is not (any longer) in the list, the earlier removals done
RemoveLoop(hand, cards) ==
    LET fails == {t \in DOMAIN cards :
                     CountIn(SubSeq(cards, 1, t), cards[t]) > CountIn(hand, cards[t])}
        done == IF fails = {} THEN Len(cards)
                ELSE (CHOOSE t \in fails : \A u \in fails : t <= u) - 1
    IN  [cards |-> ListRemoveAll(hand, SubSeq(cards, 1, done)),
         ret |-> IF fails = {} THEN "true" ELSE "raise"]

\* Hand.remove_cards: the hand afterwards and "true", "false" or "raise"
remove_cards(hand, cards) ==
    IF \E i \in DOMAIN cards : ~InList(cards[i], hand)
    THEN [cards |-> hand, ret |-> "false"]
    ELSE RemoveLoop(hand, cards)

\* Hand.is_empty
is_empty(hand) == Len(hand) = 0

\* Player.receive_cards
receive_cards(hand, cards) == add_cards(hand, cards)

\* Player.play_cards: the hand afterwards and "true", "false" or "raise"
play_cards(hand, cards) ==
    IF has_cards(hand, cards)
    THEN LET r == remove_cards(hand, cards)
         IN  [cards |-> r.cards, ret |-> IF r.ret = "raise" THEN "raise" ELSE "true"]
    ELSE [cards |-> hand, ret |-> "false"]

(***************************************************************************)
(* rules.py: CardType, CardPattern                                         *)
(***************************************************************************)
CardType ==
    {"invalid", "single", "pair", "triple", "triple_with_single",
     "triple_with_pair", "straight", "pair_straight", "triple_straight",
     "triple_straight_with_singles", "triple_straight_with_pairs",
     "four_with_two_singles", "four_with_two_pairs", "bomb", "rocket"}

CardPattern(cards, card_type, main_value, length) ==
    [cards |-> cards, card_type |-> card_type,
     main_value |-> main_value, length |-> length]

\* a comparison in which equal main values count as greater
is_greater_than_or_equal(self, other) ==
    IF self.card_type = "rocket" THEN other.card_type # "rocket"
    ELSE IF self.card_type = "bomb" THEN
        IF other.card_type # "bomb" /\ other.card_type # "rocket" THEN TRUE
        ELSE IF other.card_type = "bomb" THEN self.main_value > other.main_value
        ELSE FALSE
    ELSE IF self.card_type # other.card_type \/ Len(self.cards) # Len(other.cards)
         THEN FALSE
    ELSE self.main_value >= other.main_value

\* a comparison in which a bomb needs the higher main value against any shape
is_greater_than_by_value(self, other) ==
    IF self.card_type = "rocket" THEN other.card_type # "rocket"
    ELSE IF self.card_type = "bomb" THEN
        other.card_type # "rocket" /\ self.main_value > other.main_value
    ELSE IF self.card_type # other.card_type \/ Len(self.cards) # Len(other.cards)
         THEN FALSE
    ELSE self.main_value > other.main_value

\* a comparison that ignores the number of cards
is_greater_than_any_size(self, other) ==
    IF self.card_type = "rocket" THEN other.card_type # "rocket"
    ELSE IF self.card_type = "bomb" THEN
        IF other.card_type # "bomb" /\ other.card_type # "rocket" THEN TRUE
        ELSE IF other.card_type = "bomb" THEN self.main_value > other.main_value
        ELSE FALSE
    ELSE IF self.card_type # other.card_type THEN FALSE
    ELSE self.main_value > other.main_value

\* CardPattern.is_greater_than
is_greater_than(self, other) ==
    IF self.card_type = "rocket" THEN other.card_type # "rocket"
    ELSE IF self.card_type = "bomb" THEN
        IF other.card_type # "bomb" /\ other.card_type # "rocket" THEN TRUE
        ELSE IF other.card_type = "bomb" THEN self.main_value > other.main_value
        ELSE FALSE
    ELSE IF self.card_type # other.card_type \/ Len(self.cards) # Len(other.cards)
         THEN FALSE
    ELSE self.main_value > other.main_value

(***************************************************************************)
(* rules.py: RuleEngine                                                    *)
(***************************************************************************)
\* a sort that puts the highest value first
sorted_descending(S) ==
    [i \in 1..Cardinality(S) |-> CHOOSE m \in S : Cardinality({x \in S : x >= m}) = i]

\* sorted(...) of a set of integers
sorted(S) ==
    [i \in 1..Cardinality(S) |-> CHOOSE m \in S : Cardinality({x \in S : x <= m}) = i]

\* a run check that lets the 2 and the jokers through
_is_straight_through_two(values) ==
    IF Len(values) < 2 THEN FALSE
    ELSE \A i \in 2..Len(values) : values[i] - values[i - 1] = 1

\* RuleEngine._is_straight
_is_straight(values) ==
    IF Len(values) < 2 THEN FALSE
    ELSE IF \E i \in DOMAIN values : values[i] >= 15 THEN FALSE
    ELSE \A i \in 2..Len(values) : values[i] - values[i - 1] = 1

\* RuleEngine.analyze_cards
analyze_cards(cards) ==
    IF cards = <<>> THEN CardPattern(<<>>, "invalid", 0, 0)
    ELSE
    LET keys == {cards[i].value : i \in DOMAIN cards}
        value_count ==
            [v \in keys |-> Cardinality({i \in DOMAIN cards : cards[i].value = v})]
        card_count == Len(cards)
        unique_values == Cardinality(keys)
        \* values[0] and values[-1] of the sorted value list
        lowest == CHOOSE m \in keys : \A x \in keys : m <= x
        highest == CHOOSE m \in keys : \A x \in keys : m >= x
        \* the values with a given count, in the dict's (ascending) order
        with(n) == sorted({v \in keys : value_count[v] = n})
        triple_values == with(3)
    IN
    IF card_count = 1 THEN CardPattern(cards, "single", lowest, 0)
    ELSE IF card_count = 2 /\ unique_values = 1
        THEN CardPattern(cards, "pair", lowest, 0)
    ELSE IF card_count = 2 /\ 16 \in keys /\ 17 \in keys
        THEN CardPattern(cards, "rocket", 17, 0)
    ELSE IF card_count = 3 /\ unique_values = 1
        THEN CardPattern(cards, "triple", lowest, 0)
    ELSE IF card_count = 4 /\ unique_values = 2 /\ with(3) # <<>>
        THEN CardPattern(cards, "triple_with_single", with(3)[1], 0)
    ELSE IF card_count = 5 /\ unique_values = 2 /\ with(3) # <<>> /\ with(2) # <<>>
        THEN CardPattern(cards, "triple_with_pair", with(3)[Len(with(3))], 0)
    ELSE IF card_count = 4 /\ unique_values = 1
        THEN CardPattern(cards, "bomb", lowest, 0)
    ELSE IF card_count = 6 /\ unique_values = 3 /\ with(4) # <<>>
        THEN CardPattern(cards, "four_with_two_singles", with(4)[1], 0)
    ELSE IF card_count = 8 /\ unique_values = 3 /\ with(4) # <<>> /\ Len(with(2)) = 2
        THEN CardPattern(cards, "four_with_two_pairs", with(4)[Len(with(4))], 0)
    ELSE IF card_count >= 5 /\ unique_values = card_count /\ _is_straight(sorted(keys))
        THEN CardPattern(cards, "straight", highest, card_count)
    ELSE IF card_count >= 6 /\ card_count % 2 = 0
            /\ unique_values = card_count \div 2
            /\ (\A v \in keys : value_count[v] = 2)
            /\ _is_straight(sorted(keys))
        THEN CardPattern(cards, "pair_straight", highest, unique_values)
    ELSE IF Len(triple_values) >= 2 /\ _is_straight(triple_values)
            /\ card_count = Len(triple_values) * 3
        THEN CardPattern(cards, "triple_straight",
                         triple_values[Len(triple_values)], Len(triple_values))
    ELSE IF Len(triple_values) >= 2 /\ _is_straight(triple_values)
            /\ card_count = Len(triple_values) * 4
        THEN CardPattern(cards, "triple_straight_with_singles",
                         triple_values[Len(triple_values)], Len(triple_values))
    ELSE IF Len(triple_values) >= 2 /\ _is_straight(triple_values)
            /\ card_count = Len(triple_values) * 5
        THEN CardPattern(cards, "triple_straight_with_pairs",
                         triple_values[Len(triple_values)], Len(triple_values))
    ELSE CardPattern(cards, "invalid", 0, 0)

\* RuleEngine.can_follow; last_pattern is None or Some(pattern)
can_follow(current_cards, last_pattern) ==
    IF last_pattern = None \/ Get(last_pattern).card_type = "invalid" THEN TRUE
    ELSE LET current_pattern == analyze_cards(current_cards)
         IN  IF current_pattern.card_type = "invalid" THEN FALSE
             ELSE is_greater_than(current_pattern, Get(last_pattern))

\* RuleEngine.is_valid_cards
is_valid_cards(cards) == analyze_cards(cards).card_type # "invalid"

(***************************************************************************)
(* game_state.py: GameState, and the three Player objects it refers to     *)
(***************************************************************************)
VARIABLES
    players,             \* GameState.players: the seats of the players, <<>> or <<0, 1, 2>>
    hand,                \* Player.hand.cards of the player at each seat
    is_landlord,         \* Player.is_landlord of the player at each seat
    score,               \* Player.score of the player at each seat
    deck,                \* GameController.deck.cards
    current_player_idx,
    phase,               \* "dealing", "bidding", "playing", "ended"
    landlord_idx,        \* None or Some(seat)
    bottom_cards,
    last_play,           \* None or Some(CardPattern)
    last_player_idx,     \* None or Some(seat)
    pass_count,
    round_count,
    winner_idx,          \* None or Some(seat)
    game_history,
    call,                \* the last call of the controller: what it asked the
                         \* players, what they answered and how it returned
    raises,              \* how many play_turn calls have raised
    hcards,              \* Hand specification: Hand.cards of one Hand object
    hcall,               \* Hand specification: the last call on that Hand
    rcards,              \* RuleEngine specifications: the cards passed to the call
    rlast,               \* RuleEngine specifications: last_pattern, None or Some(CardPattern)
    pats,                \* CardPattern specification: the patterns compared
    rcall                \* RuleEngine and CardPattern specifications: the last call

state ==
    << players, current_player_idx, phase, landlord_idx, bottom_cards, last_play,
       last_player_idx, pass_count, round_count, winner_idx, game_history >>

game == << state, hand, is_landlord, score, deck >>

\* what the RuleEngine and CardPattern specifications work on
rules == << rcards, rlast, pats, rcall >>

vars == << game, call, raises, hcards, hcall, rules >>

Seats == 0..2

\* a turn order in which the seat never moves on
next_player_stays(idx) == idx

\* GameState.next_player
next_player(idx) == (idx + 1) % 3

\* a trick that would end only after a third pass
should_clear_last_play_at_three(count) == count >= 3

\* GameState.should_clear_last_play
should_clear_last_play(count) == count >= 2

\* an entry of GameState.log_action (player_name is the name of player_idx)
Action(round, player_idx, action_type, logged, card_type) ==
    [round |-> round, player_idx |-> player_idx, action_type |-> action_type,
     cards |-> logged, card_type |-> card_type]

\* what a call of the controller or of a Hand leaves for its caller to see
Call(op, asked, answers, ret) ==
    [op |-> op, asked |-> asked, answers |-> answers, ret |-> ret]

\* Player.__init__ for the three seats, GameState() and GameController.__init__,
\* and a new Hand
InitGame ==
    /\ players = <<>>
    /\ hand = [i \in Seats |-> <<>>]
    /\ is_landlord = [i \in Seats |-> FALSE]
    /\ score = [i \in Seats |-> 0]
    /\ deck = create_deck
    /\ current_player_idx = 0
    /\ phase = "dealing"
    /\ landlord_idx = None
    /\ bottom_cards = <<>>
    /\ last_play = None
    /\ last_player_idx = None
    /\ pass_count = 0
    /\ round_count = 0
    /\ winner_idx = None
    /\ game_history = <<>>
    /\ call = Call("init", <<>>, <<>>, "none")
    /\ raises = 0
    /\ hcards = <<>>
    /\ hcall = Call("init", <<>>, <<>>, "none")

\* the controller and the Hand, with no call of the RuleEngine under way
Init ==
    /\ InitGame
    /\ rcards = <<>>
    /\ rlast = None
    /\ pats = <<>>
    /\ rcall = Call("init", <<>>, <<>>, "none")

(***************************************************************************)
(* game_state.py: GameController.start_game                                *)
(***************************************************************************)
\* a start_game that replaces the state by a new GameState() before it looks
\* at the number of players
StartGameWrongCountResets ==
    /\ players' = <<>>
    /\ current_player_idx' = 0
    /\ phase' = "dealing"
    /\ landlord_idx' = None
    /\ bottom_cards' = <<>>
    /\ last_play' = None
    /\ last_player_idx' = None
    /\ pass_count' = 0
    /\ round_count' = 0
    /\ winner_idx' = None
    /\ game_history' = <<>>
    /\ call' = Call("start_game", <<>>, <<>>, "raise")
    /\ UNCHANGED << hand, is_landlord, score, deck, raises, hcards, hcall, rules >>

\* start_game with a list of other than 3 players
StartGameWrongCount ==
    /\ call' = Call("start_game", <<>>, <<>>, "raise")
    /\ UNCHANGED << game, raises, hcards, hcall, rules >>

\* start_game with three players, either new Player objects or (fresh = FALSE)
\* the ones of the game before; the orchestrator starts a game on a new
\* controller or while no landlord has been chosen (a restart)
StartGame ==
    /\ phase \in {"dealing", "bidding"}
    /\ \E order \in Shuffles, fresh \in BOOLEAN :
        LET before == IF fresh THEN [i \in Seats |-> <<>>] ELSE hand
            shuffled == shuffle(create_deck, order)
            dealt == deal_cards(shuffled)
        IN  /\ fresh \/ players # <<>>
            /\ Len(before[0]) + Len(dealt[1]) <= MaxDeals * Len(dealt[1])
            /\ players' = <<0, 1, 2>>
            /\ deck' = shuffled
            /\ hand' = [i \in Seats |-> receive_cards(before[i], dealt[i + 1])]
            /\ is_landlord' = IF fresh THEN [i \in Seats |-> FALSE] ELSE is_landlord
            /\ score' = IF fresh THEN [i \in Seats |-> 0] ELSE score
            /\ bottom_cards' = dealt[4]
            /\ current_player_idx' = 0
            /\ landlord_idx' = None
            /\ last_play' = None
            /\ last_player_idx' = None
            /\ pass_count' = 0
            /\ round_count' = 0
            /\ winner_idx' = None
            /\ phase' = "bidding"
            /\ game_history' = << Action(0, -1, "game_start", <<>>, "") >>
            /\ call' = Call("start_game", <<>>, <<>>, "none")
    /\ UNCHANGED << raises, hcards, hcall, rules >>

(***************************************************************************)
(* game_state.py: GameController.bidding_phase                             *)
(***************************************************************************)
BiddingNotBidding ==
    /\ phase # "bidding"
    /\ call' = Call("bidding_phase", <<>>, <<>>, "false")
    /\ UNCHANGED << game, raises, hcards, hcall, rules >>

\* GameState.set_landlord: Player.set_landlord(i == player_idx) on every player
set_landlord(player_idx) == [i \in Seats |-> i = player_idx]

\* bids[i] is what the player at seat i answers when decide_landlord is called
BiddingPhase ==
    /\ phase = "bidding"
    /\ \E bids \in [Seats -> BOOLEAN] :
        LET bidders == {i \in Seats : bids[i]}
            i == CHOOSE b \in bidders : \A o \in bidders : b <= o
            asked == IF bidders = {} THEN <<0, 1, 2>> ELSE Range(0, i)
            answers == [k \in DOMAIN asked |-> bids[asked[k]]]
        IN  IF bidders # {}
            THEN /\ landlord_idx' = Some(i)
                 /\ is_landlord' = set_landlord(i)
                 /\ hand' = [hand EXCEPT ![i] = receive_cards(@, bottom_cards)]
                 /\ current_player_idx' = i
                 /\ phase' = "playing"
                 /\ game_history' = Append(game_history,
                        Action(round_count, i, "become_landlord", bottom_cards, ""))
                 /\ call' = Call("bidding_phase", asked, answers, "true")
                 /\ UNCHANGED << players, bottom_cards, last_play, last_player_idx,
                                 pass_count, round_count, winner_idx, score, deck >>
            ELSE /\ call' = Call("bidding_phase", asked, answers, "false")
                 /\ UNCHANGED game
    /\ UNCHANGED << raises, hcards, hcall, rules >>

(***************************************************************************)
(* game_state.py: GameController.play_turn                                 *)
(***************************************************************************)
Prefix(s, k) == SubSeq(s, 1, k)

Suffix(s, k) == SubSeq(s, Len(s) - k + 1, Len(s))

\* What choose_cards_to_play may return to play_turn for the player at seat i:
\* None, the empty list, the k lowest or k highest cards of the hand, the hand
\* without its j highest cards, the lowest card or the whole hand with the
\* lowest card named a second time, or a card of the next player's hand.
Answers(i) ==
    LET h == hand[i]
        n == hand[next_player(i)]
        takes == 1..Min2(MaxTake, Len(h))
    IN  {None, Some(<<>>)}
        \cup {Some(Prefix(h, k)) : k \in takes}
        \cup {Some(Suffix(h, k)) : k \in takes}
        \cup {Some(Prefix(h, Len(h) - j)) : j \in 0..Min2(MaxKeep, Len(h) - 1)}
        \cup (IF raises < MaxRaises /\ h # <<>>
              THEN {Some(Append(s, h[1])) : s \in {Prefix(h, k) : k \in takes} \cup {h}}
              ELSE {})
        \cup (IF n # <<>> THEN {Some(<<n[1]>>)} ELSE {})

\* a play_turn without the test of the phase: outside phase Playing the
\* current player is asked all the same, and passes
PlayTurnUngated ==
    /\ phase # "playing"
    /\ players # <<>>
    /\ round_count < MaxRounds
    /\ game_history' = Append(game_history,
           Action(round_count, current_player_idx, "pass", <<>>, ""))
    /\ IF should_clear_last_play(pass_count + 1)
       THEN /\ last_play' = None
            /\ last_player_idx' = None
            /\ pass_count' = 0
       ELSE /\ pass_count' = pass_count + 1
            /\ UNCHANGED << last_play, last_player_idx >>
    /\ current_player_idx' = next_player(current_player_idx)
    /\ round_count' = round_count + 1
    /\ call' = Call("play_turn", <<current_player_idx>>, << None >>, "true")
    /\ UNCHANGED << players, phase, landlord_idx, bottom_cards, winner_idx,
                    hand, is_landlord, score, deck, raises, hcards, hcall, rules >>

\* play_turn outside phase Playing
PlayTurnNotPlaying ==
    /\ phase # "playing"
    /\ call' = Call("play_turn", <<>>, <<>>, "false")
    /\ UNCHANGED << game, raises, hcards, hcall, rules >>

\* cards_to_play is None: the player passes
PlayTurnPass(answer) ==
    /\ answer = None
    /\ game_history' = Append(game_history,
           Action(round_count, current_player_idx, "pass", <<>>, ""))
    /\ IF should_clear_last_play(pass_count + 1)
       THEN /\ last_play' = None
            /\ last_player_idx' = None
            /\ pass_count' = 0
       ELSE /\ pass_count' = pass_count + 1
            /\ UNCHANGED << last_play, last_player_idx >>
    /\ current_player_idx' = next_player(current_player_idx)
    /\ round_count' = round_count + 1
    /\ call' = Call("play_turn", <<current_player_idx>>, <<answer>>, "true")
    /\ UNCHANGED << players, phase, landlord_idx, bottom_cards, winner_idx,
                    hand, is_landlord, score, deck, raises >>

\* the player does not hold the cards, or they cannot follow last_play
PlayTurnRejected(answer) ==
    /\ answer # None
    /\ \/ ~has_cards(hand[current_player_idx], Get(answer))
       \/ ~can_follow(Get(answer), last_play)
    /\ call' = Call("play_turn", <<current_player_idx>>, <<answer>>, "false")
    /\ UNCHANGED << game, raises >>

\* current_player.play_cards raises: list.remove fails in Hand.remove_cards
PlayTurnRaises(answer) ==
    /\ answer # None
    /\ has_cards(hand[current_player_idx], Get(answer))
    /\ can_follow(Get(answer), last_play)
    /\ LET played == play_cards(hand[current_player_idx], Get(answer))
       IN  /\ played.ret = "raise"
           /\ hand' = [hand EXCEPT ![current_player_idx] = played.cards]
    /\ raises' = raises + 1
    /\ call' = Call("play_turn", <<current_player_idx>>, <<answer>>, "raise")
    /\ UNCHANGED << state, is_landlord, score, deck >>

\* the play is made; the game ends when it empties the hand
PlayTurnPlays(answer) ==
    /\ answer # None
    /\ has_cards(hand[current_player_idx], Get(answer))
    /\ can_follow(Get(answer), last_play)
    /\ LET cards_to_play == Get(answer)
           pattern == analyze_cards(cards_to_play)
           played == play_cards(hand[current_player_idx], cards_to_play)
           logged == Append(game_history,
               Action(round_count, current_player_idx, "play_cards",
                      cards_to_play, pattern.card_type))
       IN  /\ played.ret # "raise"
           /\ hand' = [hand EXCEPT ![current_player_idx] = played.cards]
           /\ last_play' = Some(pattern)
           /\ last_player_idx' = Some(current_player_idx)
           /\ pass_count' = 0
           /\ IF is_empty(played.cards)
              THEN /\ winner_idx' = Some(current_player_idx)
                   /\ phase' = "ended"
                   /\ game_history' = Append(logged,
                          Action(round_count, current_player_idx, "game_end", <<>>, ""))
                   /\ UNCHANGED << current_player_idx, round_count >>
              ELSE /\ game_history' = logged
                   /\ current_player_idx' = next_player(current_player_idx)
                   /\ round_count' = round_count + 1
                   /\ UNCHANGED << winner_idx, phase >>
    /\ call' = Call("play_turn", <<current_player_idx>>, <<answer>>, "true")
    /\ UNCHANGED << players, landlord_idx, bottom_cards,
                    is_landlord, score, deck, raises >>

PlayTurn ==
    /\ phase = "playing"
    /\ round_count < MaxRounds
    /\ \E answer \in Answers(current_player_idx) :
           \/ PlayTurnPass(answer)
           \/ PlayTurnRejected(answer)
           \/ PlayTurnRaises(answer)
           \/ PlayTurnPlays(answer)
    /\ UNCHANGED << hcards, hcall, rules >>

(***************************************************************************)
(* game_state.py: is_game_over, get_winner, get_game_result                *)
(***************************************************************************)
is_game_over == phase = "ended"

\* the seat of the Player get_winner returns, or None
get_winner == IF winner_idx # None THEN Some(players[Get(winner_idx) + 1]) ELSE None

\* the seat of the Player GameState.get_landlord returns, or None
get_landlord == IF landlord_idx # None THEN Some(players[Get(landlord_idx) + 1]) ELSE None

GetGameResultNotOver ==
    /\ ~is_game_over
    /\ call' = Call("get_game_result", <<>>, <<>>, "empty")
    /\ UNCHANGED << game, raises, hcards, hcall, rules >>

GetGameResult ==
    /\ is_game_over
    /\ \A i \in Seats : score[i] < 2 * MaxResults /\ score[i] > -2 * MaxResults
    /\ score' =
          IF get_winner = get_landlord
          THEN [i \in Seats |-> IF Some(i) = get_landlord THEN score[i] + 2
                                ELSE score[i] - 1]
          ELSE [i \in Seats |-> IF Some(i) = get_landlord THEN score[i] - 2
                                ELSE score[i] + 1]
    /\ call' = Call("get_game_result", <<>>, <<>>, "result")
    /\ UNCHANGED << state, hand, is_landlord, deck, raises, hcards, hcall, rules >>

Next ==
    \/ StartGameWrongCount
    \/ StartGame
    \/ BiddingNotBidding
    \/ BiddingPhase
    \/ PlayTurnNotPlaying
    \/ PlayTurn
    \/ GetGameResultNotOver
    \/ GetGameResult

Spec == Init /\ [][Next]_vars

(***************************************************************************)
(* cards.py: one Hand object, called directly (as tests/test_cards.py does) *)
(***************************************************************************)
\* the cards the callers of the Hand hold: the spade 3 and 4 and the heart 3
HandCards == {create_deck[1], create_deck[2], create_deck[14]}

\* the card lists passed to the Hand's methods
Requests == UNION {[1..n -> HandCards] : n \in 0..MaxRequest}

HandAddCards ==
    /\ \E request \in Requests :
        /\ Len(hcards) + Len(request) <= MaxHand
        /\ hcards' = add_cards(hcards, request)
        /\ hcall' = Call("add_cards", <<>>, <<request>>, "none")
    /\ UNCHANGED << game, call, raises, rules >>

HandRemoveCards ==
    /\ \E request \in Requests :
        LET removed == remove_cards(hcards, request)
        IN  /\ hcards' = removed.cards
            /\ hcall' = Call("remove_cards", <<>>, <<request>>, removed.ret)
    /\ UNCHANGED << game, call, raises, rules >>

HandHasCards ==
    /\ \E request \in Requests :
        hcall' = Call("has_cards", <<>>, <<request>>,
                      IF has_cards(hcards, request) THEN "true" ELSE "false")
    /\ UNCHANGED << hcards, game, call, raises, rules >>

NextHand == HandAddCards \/ HandRemoveCards \/ HandHasCards

SpecHand == Init /\ [][NextHand]_vars

(***************************************************************************)
(* rules.py: the RuleEngine called directly (as tests/test_rules.py does)   *)
(***************************************************************************)
\* the cards of the deck with the given values: the k-th card of a value is
\* the one of the k-th suit, the jokers have no suit
DeckCards(values) ==
    [i \in DOMAIN values |->
        IF values[i] >= 16 THEN create_deck[values[i] + 37]
        ELSE create_deck[13 * Cardinality({j \in 1..(i - 1) : values[j] = values[i]})
                         + values[i] - 2]]

\* the values of the card groups the callers pass: every shape of CardType in
\* two sizes or ranks, and groups of no shape
RuleValueLists ==
    { <<>>, <<3>>, <<4>>, <<15>>, <<16>>, <<17>>,
      <<3, 3>>, <<4, 4>>, <<16, 17>>, <<3, 4>>,
      <<3, 3, 3>>, <<4, 4, 4>>, <<3, 3, 4>>,
      <<3, 3, 3, 4>>, <<4, 4, 4, 3>>, <<3, 3, 3, 3>>, <<4, 4, 4, 4>>,
      <<3, 3, 4, 4>>, <<4, 4, 16, 17>>,
      <<3, 3, 3, 4, 4>>, <<4, 4, 4, 3, 3>>,
      <<3, 4, 5, 6, 7>>, <<4, 5, 6, 7, 8>>, <<13, 14, 15, 3, 4>>,
      <<3, 4, 5, 6, 7, 8>>, <<3, 3, 3, 3, 4, 5>>, <<4, 4, 4, 4, 3, 5>>,
      <<3, 3, 4, 4, 5, 5>>, <<4, 4, 5, 5, 6, 6>>,
      <<3, 3, 3, 4, 4, 4>>, <<4, 4, 4, 5, 5, 5>>,
      <<3, 3, 3, 4, 4, 4, 5, 6>>, <<3, 3, 3, 3, 4, 4, 5, 5>>,
      <<3, 3, 3, 4, 4, 4, 5, 5, 6, 6>> }

RuleGroups == {DeckCards(values) : values \in RuleValueLists}

\* the patterns a caller can hold: what analyze_cards returned for a group
RulePatterns == {analyze_cards(cards) : cards \in RuleGroups}

Bool(b) == IF b THEN "true" ELSE "false"

\* a test calls the RuleEngine on some cards and some last_pattern
InitRules ==
    /\ InitGame
    /\ rcards \in RuleGroups
    /\ rlast \in {None} \cup {Some(pattern) : pattern \in RulePatterns}
    /\ pats = <<>>
    /\ rcall = Call("init", <<>>, <<>>, "none")

RulesCanFollow ==
    /\ rcall' = Call("can_follow", <<>>, <<>>, Bool(can_follow(rcards, rlast)))
    /\ UNCHANGED << game, call, raises, hcards, hcall, rcards, rlast, pats >>

RulesIsValidCards ==
    /\ rcall' = Call("is_valid_cards", <<>>, <<>>, Bool(is_valid_cards(rcards)))
    /\ UNCHANGED << game, call, raises, hcards, hcall, rcards, rlast, pats >>

\* itertools.combinations(hand_cards, i): the cards at i positions, in the
\* order of the list
combinations(hand_cards, i) ==
    {[k \in 1..i |-> hand_cards[sorted(I)[k]]] :
        I \in {J \in SUBSET DOMAIN hand_cards : Cardinality(J) = i}}

\* RuleEngine.find_possible_plays: the combinations appended to possible_plays
find_possible_plays(hand_cards, last_pattern) ==
    IF last_pattern = None
    THEN UNION {{combo \in combinations(hand_cards, i) : is_valid_cards(combo)} :
                   i \in 1..Len(hand_cards)}
    ELSE UNION {{combo \in combinations(hand_cards, i) : can_follow(combo, last_pattern)} :
                   i \in Len(Get(last_pattern).cards)..Len(hand_cards)}

RulesFindPossiblePlays ==
    /\ rcall' = Call("find_possible_plays", <<>>, <<>>, find_possible_plays(rcards, rlast))
    /\ UNCHANGED << game, call, raises, hcards, hcall, rcards, rlast, pats >>

NextRules == RulesCanFollow \/ RulesIsValidCards \/ RulesFindPossiblePlays

SpecRules == InitRules /\ [][NextRules]_vars

(***************************************************************************)
(* rules.py: CardPattern.is_greater_than called on classified groups        *)
(***************************************************************************)
\* a test classifies three groups and holds their patterns
InitOrder ==
    /\ InitGame
    /\ rcards = <<>>
    /\ rlast = None
    /\ pats \in RulePatterns \X RulePatterns \X RulePatterns
    /\ rcall = Call("init", <<>>, <<>>, "none")

\* pats[i].is_greater_than(pats[j]) for every two of the patterns held
OrderIsGreaterThan ==
    /\ rcall' = Call("is_greater_than", <<>>, <<>>,
                     [i \in DOMAIN pats |->
                         [j \in DOMAIN pats |-> is_greater_than(pats[i], pats[j])]])
    /\ UNCHANGED << game, call, raises, hcards, hcall, rcards, rlast, pats >>

NextOrder == OrderIsGreaterThan

SpecOrder == InitOrder /\ [][NextOrder]_vars

(***************************************************************************)
(* rules.py: RuleEngine.analyze_cards called on groups of cards of one deck *)
(***************************************************************************)
\* the values of which a group holds up to four cards, and those of which it
\* holds at most one
ThickValues == {12, 13, 14, 15}

ThinValues == {3, 4, 10, 11, 16, 17}

\* the place in the deck of the k-th card of a value; mirrored: the suits are
\* taken from the last one
DeckPlace(value, k, mirrored) ==
    IF value >= 16 THEN value + 37
    ELSE 13 * (IF mirrored THEN Len(Suit) - k ELSE k - 1) + value - 2

\* the cards at some places of the deck, in deck order or (mirrored) backwards
CardsAt(places, mirrored) ==
    [i \in 1..Cardinality(places) |->
        create_deck[IF mirrored THEN sorted_descending(places)[i] ELSE sorted(places)[i]]]

\* a group with counts[v] cards of each thick value v and one of each thin one
GroupOf(counts, thin, mirrored) ==
    CardsAt({DeckPlace(v, 1, mirrored) : v \in thin}
            \cup UNION {{DeckPlace(v, k, mirrored) : k \in 1..counts[v]} : v \in ThickValues},
            mirrored)

\* a test classifies one group of cards: a group of RuleGroups, or up to four
\* cards of each thick value with some thin ones, in either order
InitAnalyze ==
    /\ InitGame
    /\ \/ rcards \in RuleGroups
       \/ \E counts \in [ThickValues -> 0..Len(Suit)], thin \in SUBSET ThinValues,
             mirrored \in BOOLEAN :
              rcards = GroupOf(counts, thin, mirrored)
    /\ Len(rcards) <= MaxGroup
    /\ rlast = None
    /\ pats = <<>>
    /\ rcall = Call("init", <<>>, <<>>, "none")

AnalyzeCards ==
    /\ rcall' = Call("analyze_cards", <<>>, <<>>, analyze_cards(rcards))
    /\ UNCHANGED << game, call, raises, hcards, hcall, rcards, rlast, pats >>

NextAnalyze == AnalyzeCards

SpecAnalyze == InitAnalyze /\ [][NextAnalyze]_vars

(***************************************************************************)
(* cards.py: one Deck object, called directly (as tests/test_cards.py does) *)
(***************************************************************************)
\* the strides that reach every one of the 54 places
DealStrides == {a \in 1..MaxStride : a % 2 # 0 /\ a % 3 # 0}

\* the orders random.shuffle may produce in this specification
DealOrders ==
    {[p \in 1..54 |-> (((p - 1) * a + b) % 54) + 1] :
        a \in DealStrides, b \in 0..MaxShift}

\* Deck.shuffle
DeckShuffle ==
    /\ \E order \in DealOrders : deck' = shuffle(deck, order)
    /\ rcall' = Call("shuffle", <<>>, <<>>, "none")
    /\ UNCHANGED << state, hand, is_landlord, score, call, raises, hcards, hcall,
                    rcards, rlast, pats >>

\* Deck.reset
DeckReset ==
    /\ deck' = create_deck
    /\ rcall' = Call("reset", <<>>, <<>>, "none")
    /\ UNCHANGED << state, hand, is_landlord, score, call, raises, hcards, hcall,
                    rcards, rlast, pats >>

\* Deck.deal_cards: the four groups, or "raise" when the deck is not 54 cards
DeckDealCards ==
    /\ rcall' = Call("deal_cards", <<>>, <<>>,
                     IF Len(deck) # 54 THEN <<"raise">> ELSE deal_cards(deck))
    /\ UNCHANGED << game, call, raises, hcards, hcall, rcards, rlast, pats >>

NextDeck == DeckShuffle \/ DeckReset \/ DeckDealCards

SpecDeck == Init /\ [][NextDeck]_vars

(***************************************************************************)
(* game_state.py: a game played by players whose every answer is a pass or *)
(* a move that play_turn accepts, and who do not pass when they lead; the  *)
(* caller calls play_turn until the game is over (ui/console_ui.py         *)
(* playing_phase, backend/main.py)                                         *)
(***************************************************************************)
\* how many accepted plays of no card the history holds
EmptyPlays ==
    Cardinality({n \in DOMAIN game_history :
                    /\ game_history[n].action_type = "play_cards"
                    /\ game_history[n].cards = <<>>})

\* What choose_cards_to_play returns for the player at seat i: None, the
\* empty list, or the cards of the hand: all but the MaxPlayHand highest
\* while the hand is longer than that, then the whole hand.
PlayAnswers(i) ==
    LET h == hand[i]
    IN  {None}
        \cup (IF EmptyPlays < MaxEmpty THEN {Some(<<>>)} ELSE {})
        \cup (IF h = <<>> THEN {}
              ELSE IF Len(h) > MaxPlayHand THEN {Some(Prefix(h, Len(h) - MaxPlayHand))}
              ELSE {Some(h)})

\* play_turn with an answer that is accepted, or a pass that is not an
\* opening pass
PlayTurnLed ==
    /\ phase = "playing"
    /\ round_count < MaxPlayRounds
    /\ \E answer \in PlayAnswers(current_player_idx) :
           /\ answer = None => last_play # None
           /\ \/ PlayTurnPass(answer)
              \/ PlayTurnPlays(answer)
    /\ UNCHANGED << hcards, hcall, rules >>

NextPlay == StartGame \/ BiddingPhase \/ PlayTurnLed

\* the caller's loop `while not is_game_over()` goes on calling play_turn
SpecPlay == Init /\ [][NextPlay]_vars /\ WF_vars(PlayTurnLed)

(***************************************************************************)
(* Properties of the trick: passes, the lead, the end of the game          *)
(***************************************************************************)
\* the last k entries of the history have the action types of kinds, in order
HistoryEndsWith(kinds) ==
    LET n == Len(game_history)
        k == Len(kinds)
    IN  /\ n >= k
        /\ \A j \in 1..k : game_history[n - k + j].action_type = kinds[j]

\* the entry k places before the end of the history (0: the last entry)
HistoryBack(k) == game_history[Len(game_history) - k]

\* C1. Pass-clear: in phase Playing, when the last calls that changed the
\* trick are an accepted play followed by exactly two passes, last_play and
\* last_player_idx are absent and pass_count is 0; when they are an accepted
\* play followed by one pass, last_play and last_player_idx are still the
\* pattern and the seat of that play and pass_count is 1.
C1_PassClear ==
    phase = "playing" =>
        /\ HistoryEndsWith(<<"play_cards", "pass", "pass">>) =>
               /\ last_play = None
               /\ last_player_idx = None
               /\ pass_count = 0
        /\ HistoryEndsWith(<<"play_cards", "pass">>) =>
               /\ last_play = Some(analyze_cards(HistoryBack(1).cards))
               /\ last_player_idx = Some(HistoryBack(1).player_idx)
               /\ pass_count = 1

\* a play, then two passes, have just been made
C1_Witness ==
    /\ phase = "playing"
    /\ HistoryEndsWith(<<"play_cards", "pass", "pass">>)
    /\ HistoryBack(2).cards # <<>>
    /\ pass_count = 0

\* C2. The lead returns to the last player who played: a pass of play_turn
\* that clears a present last_play leaves current_player_idx equal to the
\* last_player_idx held before the call; and in every Playing state with a
\* present last_play, current_player_idx differs from last_player_idx.
C2_LeadReturns ==
    /\ [](phase = "playing" /\ last_play # None
              => last_player_idx # Some(current_player_idx))
    /\ [][(call'.op = "play_turn" /\ call'.answers = <<None>>
              /\ last_play # None /\ last_play' = None)
              => Some(current_player_idx') = last_player_idx]_vars

\* a pass has just cleared last_play and the player of the play has the lead
C2_Witness ==
    /\ phase = "playing"
    /\ call.op = "play_turn"
    /\ call.answers = <<None>>
    /\ call.ret = "true"
    /\ last_play = None
    /\ HistoryEndsWith(<<"play_cards", "pass", "pass">>)
    /\ current_player_idx = HistoryBack(2).player_idx

\* C3. Termination and winner: in every state with phase Playing all three
\* hands are non-empty; the game is over exactly when a hand has been emptied,
\* and then the last play logged is the winner's, winner_idx is the seat of
\* that player, get_winner returns that player and that player's hand is empty.
C3_TerminationAndWinner ==
    /\ phase = "playing" => \A i \in Seats : hand[i] # <<>>
    /\ is_game_over =>
           /\ winner_idx # None
           /\ get_winner = Some(players[Get(winner_idx) + 1])
           /\ hand[Get(winner_idx)] = <<>>
           /\ \A i \in Seats \ {Get(winner_idx)} : hand[i] # <<>>
           /\ HistoryEndsWith(<<"play_cards", "game_end">>)
           /\ HistoryBack(1).player_idx = Get(winner_idx)
    /\ ~is_game_over => winner_idx = None /\ get_winner = None

(***************************************************************************)
(* Properties of the cards: conservation, the deal, bidding                *)
(***************************************************************************)
\* how many times card was played through accepted play_turn calls
PlayedCount(card) ==
    Cardinality({p \in UNION {{<<n, k>> : k \in DOMAIN game_history[n].cards} :
                              n \in DOMAIN game_history} :
                    /\ game_history[p[1]].action_type = "play_cards"
                    /\ game_history[p[1]].cards[p[2]] = card})

\* in how many places card is: the hands, the played cards, the bottom cards
\* while no landlord has been chosen
PlacesOf(card) ==
    CountIn(hand[0], card) + CountIn(hand[1], card) + CountIn(hand[2], card)
    + PlayedCount(card)
    + (IF landlord_idx = None THEN CountIn(bottom_cards, card) ELSE 0)

\* C4. Card conservation: once start_game has dealt, each of the 54 deck
\* cards is in exactly one place: a hand, the played cards, or (while no
\* landlord has been chosen) the bottom cards.
C4_CardConservation ==
    players # <<>> => \A p \in DOMAIN create_deck : PlacesOf(create_deck[p]) = 1

\* C5. start_game deals 17 cards to each player: after a start_game call that
\* returned normally, every player holds 17 cards, bottom_cards holds 3, and
\* the four groups are disjoint and cover the deck, also when the players had
\* been dealt cards by an earlier start_game.
C5_StartGameDeals17 ==
    (call.op = "start_game" /\ call.ret = "none") =>
        /\ \A i \in Seats : Len(hand[i]) = 17
        /\ Len(bottom_cards) = 3
        /\ \A p \in DOMAIN create_deck :
               CountIn(hand[0] \o hand[1] \o hand[2] \o bottom_cards,
                       create_deck[p]) = 1

\* C6. Bidding picks the first bidder in seat order: when bidding_phase is
\* called in phase Bidding and some player bids, the lowest seat i that bids
\* becomes landlord (landlord_idx = i, only i has is_landlord), the seats
\* after i are not asked, the hand of i grows from 17 to 20 by the 3 bottom
\* cards, current_player_idx becomes i, phase becomes Playing and the call
\* returns true.
C6_FirstBidder ==
    [][(/\ call'.op = "bidding_phase"
        /\ phase = "bidding"
        /\ \E k \in DOMAIN call'.answers : call'.answers[k])
       => LET i == call'.asked[Len(call'.asked)]
          IN  /\ call'.asked = Range(0, i)
              /\ \A k \in DOMAIN call'.answers :
                     call'.answers[k] <=> (call'.asked[k] = i)
              /\ landlord_idx' = Some(i)
              /\ \A j \in Seats : is_landlord'[j] <=> (j = i)
              /\ Len(hand[i]) = 17
              /\ Len(hand'[i]) = 20
              /\ \A p \in DOMAIN create_deck :
                     CountIn(hand'[i], create_deck[p])
                         = CountIn(hand[i] \o bottom_cards, create_deck[p])
              /\ \A j \in Seats \ {i} : hand'[j] = hand[j]
              /\ current_player_idx' = i
              /\ phase' = "playing"
              /\ call'.ret = "true"]_vars

\* C7. Bidding with no bidder: bidding_phase returns true exactly when some
\* player bid; when all three decline it returns false and leaves the game
\* unchanged: phase Bidding, no landlord_idx, 17 cards in every hand, the
\* same bottom_cards, and each player asked exactly once.
C7_NoBidder ==
    [][call'.op = "bidding_phase"
       => /\ call'.ret = "true" <=> \E k \in DOMAIN call'.answers : call'.answers[k]
          /\ (phase = "bidding" /\ \A k \in DOMAIN call'.answers : ~call'.answers[k])
                 => /\ call'.ret = "false"
                    /\ call'.asked = <<0, 1, 2>>
                    /\ UNCHANGED game
                    /\ phase' = "bidding"
                    /\ landlord_idx' = None
                    /\ \A i \in Seats : Len(hand'[i]) = 17]_vars

(***************************************************************************)
(* Properties of the membership check and of the removal                    *)
(***************************************************************************)
\* the request names no card more often than the list holds it
HeldWithMultiplicity(list, request) ==
    \A k \in DOMAIN request : CountIn(request, request[k]) <= CountIn(list, request[k])

\* C8. A rejected move changes nothing: when the answer of the current player
\* is a non-empty list that names a card the hand does not hold, or that
\* cannot follow last_play, play_turn returns false without raising, asks no
\* player a second time, and leaves the hands, last_play, last_player_idx,
\* pass_count, current_player_idx, round_count, phase, winner_idx and the
\* history unchanged, so that the same player is asked by the next call.
C8_RejectedMoveChangesNothing ==
    [][(/\ call'.op = "play_turn"
        /\ phase = "playing"
        /\ call'.answers # <<>>
        /\ call'.answers[1] # None
        /\ Get(call'.answers[1]) # <<>>
        /\ \/ \E k \in DOMAIN Get(call'.answers[1]) :
                  Get(call'.answers[1])[k] \notin SeqToSet(hand[current_player_idx])
           \/ ~can_follow(Get(call'.answers[1]), last_play))
       => /\ call'.ret = "false"
          /\ call'.asked = <<current_player_idx>>
          /\ UNCHANGED game]_vars

\* a move of held cards that cannot follow last_play has just been rejected
C8_Witness ==
    /\ phase = "playing"
    /\ call.op = "play_turn"
    /\ call.ret = "false"
    /\ call.asked = <<current_player_idx>>
    /\ call.answers # <<>>
    /\ call.answers[1] # None
    /\ Get(call.answers[1]) # <<>>
    /\ last_play # None
    /\ has_cards(hand[current_player_idx], Get(call.answers[1]))
    /\ ~can_follow(Get(call.answers[1]), last_play)

\* C9. Hand membership is checked with multiplicity: has_cards is true only
\* if the hand holds every card at least as often as the request names it; a
\* move of play_turn that names a card more often than the hand holds it makes
\* play_turn return false, without raising and without removing a card.
C9_MembershipMultiplicity ==
    [][(/\ call'.op = "play_turn"
        /\ phase = "playing"
        /\ call'.answers # <<>>
        /\ call'.answers[1] # None)
       => LET request == Get(call'.answers[1])
              held == hand[current_player_idx]
          IN  /\ has_cards(held, request) => HeldWithMultiplicity(held, request)
              /\ ~HeldWithMultiplicity(held, request)
                     => call'.ret = "false" /\ hand' = hand]_vars

\* C10. Hand.remove_cards is atomic: for every hand and every request, also
\* one that repeats a card, the call either removes all the requested cards
\* and returns true, or returns false and leaves the hand as it was; it never
\* raises after removing a part of the request.
C10_RemoveAtomic ==
    [][hcall'.op = "remove_cards"
       => LET request == hcall'.answers[1]
          IN  \/ /\ hcall'.ret = "true"
                 /\ \A c \in HandCards :
                        CountIn(hcards', c) = CountIn(hcards, c) - CountIn(request, c)
              \/ /\ hcall'.ret = "false"
                 /\ hcards' = hcards]_vars

(***************************************************************************)
(* Properties of the RuleEngine                                             *)
(***************************************************************************)
\* C11. can_follow(cards, last_pattern) is true exactly when the cards
\* classify as a pattern other than INVALID and last_pattern is absent or the
\* pattern is greater than last_pattern; so can_follow(cards, None) is false
\* for every group that classifies as INVALID, the empty group included.
C11_CanFollow ==
    rcall.op = "can_follow" =>
        (rcall.ret = "true" <=>
            /\ analyze_cards(rcards).card_type # "invalid"
            /\ \/ rlast = None
               \/ is_greater_than(analyze_cards(rcards), Get(rlast)))

\* C12. The last play on the table is a real shape: in every state reached
\* through start_game, bidding_phase and play_turn, whatever the players
\* answer, last_play is absent or a pattern whose card_type is not INVALID, and
\* no play_turn call accepts cards that classify as INVALID, also when they
\* open a trick.
C12_LastPlayIsAShape ==
    /\ last_play # None => Get(last_play).card_type # "invalid"
    /\ (call.op = "play_turn" /\ call.ret = "true" /\ call.answers # <<None>>)
           => analyze_cards(Get(call.answers[1])).card_type # "invalid"

\* C13. An empty answer is a pass: when choose_cards_to_play returns an empty
\* list, play_turn does what it does for an absent answer: it logs a pass,
\* increments pass_count (clearing last_play, last_player_idx and pass_count
\* at the second pass), changes no hand, moves to the next player and returns
\* true; the empty list never becomes last_play nor sets last_player_idx.
C13_EmptyAnswerIsPass ==
    [][(call'.op = "play_turn" /\ phase = "playing" /\ call'.answers = <<Some(<<>>)>>)
       => /\ call'.ret = "true"
          /\ game_history' = Append(game_history,
                 Action(round_count, current_player_idx, "pass", <<>>, ""))
          /\ IF pass_count + 1 >= 2
             THEN last_play' = None /\ last_player_idx' = None /\ pass_count' = 0
             ELSE /\ last_play' = last_play
                  /\ last_player_idx' = last_player_idx
                  /\ pass_count' = pass_count + 1
          /\ hand' = hand
          /\ current_player_idx' = (current_player_idx + 1) % 3
          /\ round_count' = round_count + 1]_vars

\* C20. find_possible_plays returns exactly the legal follows: for every
\* hand and every present last_pattern that is not INVALID, the result holds
\* every non-empty subset of the hand for which can_follow is true, also the
\* bombs and the rocket that have fewer cards than last_pattern, and nothing
\* else; with no last_pattern it holds exactly the subsets that classify as
\* a pattern other than INVALID.
C20_FindPossiblePlays ==
    rcall.op = "find_possible_plays" =>
        LET subsets == UNION {combinations(rcards, i) : i \in 1..Len(rcards)}
        IN  IF rlast = None
            THEN rcall.ret =
                     {combo \in subsets : analyze_cards(combo).card_type # "invalid"}
            ELSE Get(rlast).card_type # "invalid" =>
                     rcall.ret = {combo \in subsets : can_follow(combo, rlast)}

(***************************************************************************)
(* Properties of CardPattern.is_greater_than                                *)
(***************************************************************************)
\* the shapes that are neither a bomb nor the rocket
Ordinary(pattern) == pattern.card_type \notin {"bomb", "rocket"}

\* C14. is_greater_than is a strict partial order on the patterns obtained
\* by classifying card groups of one deck: no pattern is greater than itself
\* (the rocket included), no two patterns are greater than each other, and
\* A > B and B > C imply A > C.
C14_StrictPartialOrder ==
    rcall.op = "is_greater_than" =>
        LET gt == rcall.ret
        IN  /\ \A i \in DOMAIN pats : ~gt[i][i]
            /\ \A i, j \in DOMAIN pats : ~(gt[i][j] /\ gt[j][i])
            /\ \A i, j, k \in DOMAIN pats : (gt[i][j] /\ gt[j][k]) => gt[i][k]

\* the rocket, a bomb and an ordinary shape have been compared as a chain
C14_Witness ==
    /\ rcall.op = "is_greater_than"
    /\ pats[1].card_type = "rocket"
    /\ pats[2].card_type = "bomb"
    /\ pats[3].card_type = "triple"
    /\ rcall.ret[1][2] /\ rcall.ret[2][3] /\ rcall.ret[1][3]

\* C15. Bomb and rocket dominance: the rocket is greater than every bomb and
\* every other validly classified pattern that is not the rocket, and no
\* pattern is greater than the rocket; a bomb is greater than every validly
\* classified pattern that is neither a bomb nor the rocket, whatever the main
\* values, no such pattern is greater than a bomb, and bomb against bomb is
\* decided by main_value alone.
C15_BombAndRocketDominance ==
    rcall.op = "is_greater_than" =>
        \A i, j \in DOMAIN pats :
            LET a == pats[i]
                b == pats[j]
                valid == b.card_type # "invalid"
            IN  /\ (a.card_type = "rocket" /\ valid /\ b.card_type # "rocket")
                       => rcall.ret[i][j]
                /\ b.card_type = "rocket" => ~rcall.ret[i][j]
                /\ (a.card_type = "bomb" /\ valid /\ Ordinary(b))
                       => rcall.ret[i][j] /\ ~rcall.ret[j][i]
                /\ (a.card_type = "bomb" /\ b.card_type = "bomb")
                       => (rcall.ret[i][j] <=> a.main_value > b.main_value)

\* a bomb has been found greater than a triple of a higher value, and the
\* rocket greater than that bomb
C15_Witness ==
    /\ rcall.op = "is_greater_than"
    /\ pats[1].card_type = "bomb"
    /\ pats[2].card_type = "triple"
    /\ pats[2].main_value > pats[1].main_value
    /\ pats[3].card_type = "rocket"
    /\ rcall.ret[1][2] /\ rcall.ret[3][1]

\* C16 as stated. Ordinary shapes compare only within the same shape and
\* size: for patterns A and B where A is neither a bomb nor the rocket, A > B
\* exactly if they have the same card_type, the same number of cards and A has
\* the higher main_value; for a different card_type or number of cards
\* is_greater_than is false in both directions.
C16_AsStated ==
    rcall.op = "is_greater_than" =>
        \A i, j \in DOMAIN pats :
            LET a == pats[i]
                b == pats[j]
            IN  Ordinary(a) =>
                    /\ rcall.ret[i][j] <=>
                           /\ a.card_type = b.card_type
                           /\ Len(a.cards) = Len(b.cards)
                           /\ a.main_value > b.main_value
                    /\ (a.card_type # b.card_type \/ Len(a.cards) # Len(b.cards))
                           => ~rcall.ret[i][j] /\ ~rcall.ret[j][i]

\* C16. Ordinary shapes compare only within the same shape and size: for
\* patterns A and B where A is neither a bomb nor the rocket, A > B exactly if
\* they have the same card_type, the same number of cards and A has the
\* higher main_value; when B too is neither a bomb nor the rocket and the
\* card_type or the number of cards differ, is_greater_than is false in both
\* directions.
C16_OrdinaryShapes ==
    rcall.op = "is_greater_than" =>
        \A i, j \in DOMAIN pats :
            LET a == pats[i]
                b == pats[j]
            IN  Ordinary(a) =>
                    /\ rcall.ret[i][j] <=>
                           /\ a.card_type = b.card_type
                           /\ Len(a.cards) = Len(b.cards)
                           /\ a.main_value > b.main_value
                    /\ (/\ Ordinary(b)
                        /\ a.card_type # b.card_type \/ Len(a.cards) # Len(b.cards))
                           => ~rcall.ret[i][j] /\ ~rcall.ret[j][i]

\* straights of 5 and of 6 cards, and two straights of 5 cards, were compared
C16_Witness ==
    /\ rcall.op = "is_greater_than"
    /\ pats[1].card_type = "straight" /\ Len(pats[1].cards) = 6
    /\ pats[2].card_type = "straight" /\ Len(pats[2].cards) = 5
    /\ pats[3].card_type = "straight" /\ Len(pats[3].cards) = 5
    /\ pats[1].main_value > pats[3].main_value
    /\ ~rcall.ret[1][3] /\ ~rcall.ret[3][1]
    /\ rcall.ret[2][3]

\* C17. INVALID is incomparable: for every two patterns of which at least one
\* has card_type INVALID, is_greater_than is false in both directions, also
\* when the other one is a bomb or the rocket.
C17_InvalidIncomparable ==
    rcall.op = "is_greater_than" =>
        \A i, j \in DOMAIN pats :
            (pats[i].card_type = "invalid" \/ pats[j].card_type = "invalid")
                => ~rcall.ret[i][j] /\ ~rcall.ret[j][i]

(***************************************************************************)
(* Properties of RuleEngine.analyze_cards                                   *)
(***************************************************************************)
\* how many cards of each value a group holds: its multiset of values
ValueCounts(cards) ==
    [v \in 3..17 |-> Cardinality({i \in DOMAIN cards : cards[i].value = v})]

\* a set of values that is a run of consecutive ranks below the 2
IsRun(S) ==
    /\ S # {}
    /\ \A v \in S : v < 15
    /\ \A v \in S : v + 1 \in S \/ \A x \in S : x <= v

Highest(S) == CHOOSE m \in S : \A x \in S : x <= m

\* the decision procedure in priority order, rules 1 to 14, on a multiset of
\* values given by its counts
ShapeByRules(count) ==
    LET held == {v \in DOMAIN count : count[v] > 0}
        n == count[3] + count[4] + count[5] + count[6] + count[7] + count[8]
             + count[9] + count[10] + count[11] + count[12] + count[13]
             + count[14] + count[15] + count[16] + count[17]
        distinct == Cardinality(held)
        of(k) == {v \in held : count[v] = k}
        run == Cardinality(of(3))
        Shape(t, m, l) == [card_type |-> t, main_value |-> m, length |-> l]
    IN  IF n = 0 THEN Shape("invalid", 0, 0)
        ELSE IF n = 1 THEN Shape("single", Highest(held), 0)
        ELSE IF n = 2 /\ held = {16, 17} THEN Shape("rocket", 17, 0)
        ELSE IF n = 2 /\ distinct = 1 THEN Shape("pair", Highest(held), 0)
        ELSE IF n = 3 /\ distinct = 1 THEN Shape("triple", Highest(held), 0)
        ELSE IF n = 4 /\ distinct = 2 /\ of(3) # {}
            THEN Shape("triple_with_single", Highest(of(3)), 0)
        ELSE IF n = 5 /\ distinct = 2 /\ of(3) # {} /\ of(2) # {}
            THEN Shape("triple_with_pair", Highest(of(3)), 0)
        ELSE IF n = 4 /\ distinct = 1 THEN Shape("bomb", Highest(held), 0)
        ELSE IF n = 6 /\ distinct = 3 /\ of(4) # {}
            THEN Shape("four_with_two_singles", Highest(of(4)), 0)
        ELSE IF n = 8 /\ distinct = 3 /\ of(4) # {} /\ Cardinality(of(2)) = 2
            THEN Shape("four_with_two_pairs", Highest(of(4)), 0)
        ELSE IF n >= 5 /\ distinct = n /\ IsRun(held)
            THEN Shape("straight", Highest(held), n)
        ELSE IF n >= 6 /\ n % 2 = 0 /\ of(2) = held /\ IsRun(held)
            THEN Shape("pair_straight", Highest(held), distinct)
        ELSE IF run >= 2 /\ IsRun(of(3)) /\ n = 3 * run
            THEN Shape("triple_straight", Highest(of(3)), run)
        ELSE IF run >= 2 /\ IsRun(of(3)) /\ n = 4 * run
            THEN Shape("triple_straight_with_singles", Highest(of(3)), run)
        ELSE IF run >= 2 /\ IsRun(of(3)) /\ n = 5 * run
            THEN Shape("triple_straight_with_pairs", Highest(of(3)), run)
        ELSE Shape("invalid", 0, 0)

\* the shapes that are runs
RunTypes ==
    {"straight", "pair_straight", "triple_straight",
     "triple_straight_with_singles", "triple_straight_with_pairs"}

\* C18. analyze_cards agrees with the decision procedure: for every group of
\* at most MaxGroup cards of one deck, the card_type and main_value returned
\* are those of the priority-ordered rules 1 to 14 applied to the multiset of
\* the values, and length is the run length for the shapes that are runs; so
\* the result depends on the multiset of values alone, not on the order of the
\* cards or on their suits.
C18_AnalyzeAgreesWithRules ==
    rcall.op = "analyze_cards" =>
        LET shape == ShapeByRules(ValueCounts(rcards))
        IN  /\ rcall.ret.card_type = shape.card_type
            /\ rcall.ret.main_value = shape.main_value
            /\ shape.card_type \in RunTypes => rcall.ret.length = shape.length

\* a triple with a pair, the pair of the higher value and given first, has
\* been classified
C18_Witness ==
    /\ rcall.op = "analyze_cards"
    /\ rcall.ret.card_type = "triple_with_pair"
    /\ rcards[1].value > rcall.ret.main_value
    /\ rcards[1].suit = "clubs"

\* C19. Runs never contain a 2 or a joker: no card of a group classified as
\* STRAIGHT or PAIR_STRAIGHT has value 15, 16 or 17; no value that appears
\* three times in a group classified as TRIPLE_STRAIGHT, with singles or with
\* pairs, is 15 or above; and a group of five or more distinct values that
\* holds a 2 (such as K, A, 2, 3, 4) classifies as INVALID.
C19_RunsWithoutTwo ==
    rcall.op = "analyze_cards" =>
        LET count == ValueCounts(rcards)
            distinct == Cardinality({v \in DOMAIN count : count[v] > 0})
        IN  /\ rcall.ret.card_type \in {"straight", "pair_straight"}
                   => \A i \in DOMAIN rcards : rcards[i].value < 15
            /\ rcall.ret.card_type \in RunTypes \ {"straight", "pair_straight"}
                   => \A v \in DOMAIN count : count[v] = 3 => v < 15
            /\ (Len(rcards) >= 5 /\ distinct = Len(rcards) /\ count[15] = 1)
                   => rcall.ret.card_type = "invalid"

\* K, A, 2, 3, 4 has been classified
C19_Witness ==
    /\ rcall.op = "analyze_cards"
    /\ {rcards[i].value : i \in DOMAIN rcards} = {13, 14, 15, 3, 4}
    /\ Len(rcards) = 5
    /\ rcall.ret.card_type = "invalid"


(***************************************************************************)
(* Properties of the result: scoring                                       *)
(***************************************************************************)
\* the scores the specification fixes for a game won by the seat winner with
\* the landlord at the seat landlord, every player starting from 0
FixedScores(winner, landlord) ==
    [i \in Seats |->
        IF winner = landlord THEN (IF i = landlord THEN 2 ELSE -1)
        ELSE (IF i = landlord THEN -2 ELSE 1)]

\* C21. Scoring is fixed and zero-sum: after get_game_result has been called
\* on an ended game (every player of a game starts from score 0: start_game is
\* called before any result was read), the landlord's score is +2 and each
\* farmer's -1 if the landlord won, -2 and +1 if a farmer won, and the three
\* scores sum to 0.
C21_FixedZeroSumScoring ==
    (call.op = "get_game_result" /\ call.ret = "result") =>
        /\ score = FixedScores(Get(winner_idx), Get(landlord_idx))
        /\ score[0] + score[1] + score[2] = 0

(***************************************************************************)
(* Properties of the calls: what a refused call leaves alone, the phase    *)
(***************************************************************************)
\* C22. start_game rejects a wrong player count without side effects: a
\* start_game call with other than 3 players raises, and leaves the phase, the
\* players, their hands, the bottom cards, the history and every other field
\* of the state, the players and the deck as they were; nobody is dealt cards.
C22_StartGameWrongCount ==
    [][(call'.op = "start_game" /\ call'.ret = "raise") => UNCHANGED game]_vars

\* start_game has raised in the middle of a game: a landlord holds 20 cards
C22_Witness ==
    /\ call.op = "start_game"
    /\ call.ret = "raise"
    /\ phase = "playing"
    /\ game_history # <<>>
    /\ \E i \in Seats : Len(hand[i]) = 20

(***************************************************************************)
(* Properties of the deck: the deal                                        *)
(***************************************************************************)
\* C23. Deck deal round trip: for any order of the 54-card deck, deal_cards
\* returns four groups of 17, 17, 17 and 3 cards that are pairwise disjoint
\* and whose union, as a multiset of (value, suit), is the deck exactly: every
\* card of the deck is in the groups once, and nothing else is.
C23_DealRoundTrip ==
    rcall.op = "deal_cards" =>
        LET groups == rcall.ret
            dealt == groups[1] \o groups[2] \o groups[3] \o groups[4]
        IN  /\ Len(groups) = 4
            /\ << Len(groups[1]), Len(groups[2]), Len(groups[3]), Len(groups[4]) >>
                   = << 17, 17, 17, 3 >>
            /\ \A g, h \in 1..4 : g # h => SeqToSet(groups[g]) \cap SeqToSet(groups[h]) = {}
            /\ SeqToSet(dealt) = SeqToSet(create_deck)
            /\ \A i \in DOMAIN create_deck :
                   /\ CountIn(dealt, create_deck[i]) = CountIn(create_deck, create_deck[i])
                   /\ CountIn(dealt, create_deck[i]) = CountIn(deck, create_deck[i])

\* a shuffled deck has been dealt: the first player's cards are not the
\* first 17 of a new deck, and the jokers are not both in the bottom cards
C23_Witness ==
    /\ rcall.op = "deal_cards"
    /\ deck # create_deck
    /\ rcall.ret[1] # SubSeq(create_deck, 1, 17)
    /\ \E i \in 1..3 : \E j \in DOMAIN rcall.ret[i] : rcall.ret[i][j].value >= 16

\* C24. Phase only moves forward within a game: from the start_game call that
\* creates the GameState on, the phase changes only from Bidding to Playing,
\* by a bidding_phase call in which someone bids, and from Playing to Ended,
\* by a play_turn call that empties the acting player's hand; no call moves
\* it backward or from Bidding directly to Ended.
C24_PhaseForward ==
    [][(phase' # phase /\ call'.op # "start_game") =>
           \/ /\ phase = "bidding"
              /\ phase' = "playing"
              /\ call'.op = "bidding_phase"
              /\ call'.ret = "true"
              /\ \E k \in DOMAIN call'.answers : call'.answers[k]
           \/ /\ phase = "playing"
              /\ phase' = "ended"
              /\ call'.op = "play_turn"
              /\ call'.ret = "true"
              /\ call'.asked = << current_player_idx >>
              /\ hand[current_player_idx] # <<>>
              /\ hand'[current_player_idx] = <<>>]_vars

\* C25. pass_count stays in {0, 1} between calls: in every state a play_turn
\* call returns in, pass_count is 0 or 1, never 2 or more; it is 0 right after
\* every accepted play that is not a pass, and right after every pass that
\* clears last_play.
C25_PassCount ==
    /\ [](pass_count \in {0, 1})
    /\ [][/\ (call'.op = "play_turn" /\ call'.ret = "true" /\ call'.answers # << None >>)
                 => pass_count' = 0
          /\ (call'.op = "play_turn" /\ call'.answers = << None >>
                 /\ last_play # None /\ last_play' = None)
                 => pass_count' = 0]_vars

\* a second pass has just cleared the play of the trick
C25_Witness ==
    /\ call.op = "play_turn"
    /\ call.answers = << None >>
    /\ HistoryEndsWith(<<"play_cards", "pass", "pass">>)
    /\ HistoryBack(2).card_type # "invalid"
    /\ last_play = None
    /\ pass_count = 0

\* C26. Turn order and round counter: a play_turn call that returns true
\* without ending the game (an accepted play or a pass) moves
\* current_player_idx to the next seat modulo 3 and adds 1 to round_count; the
\* play_turn call that empties the acting player's hand returns true and
\* leaves current_player_idx, which is winner_idx, and round_count unchanged;
\* a play_turn call that returns false changes neither.
C26_TurnOrder ==
    [][call'.op = "play_turn" =>
           /\ (call'.ret = "true" /\ phase' # "ended") =>
                  /\ current_player_idx' = (current_player_idx + 1) % 3
                  /\ round_count' = round_count + 1
           /\ (phase = "playing" /\ hand[current_player_idx] # <<>>
                   /\ hand'[current_player_idx] = <<>>) =>
                  /\ call'.ret = "true"
                  /\ phase' = "ended"
                  /\ winner_idx' = Some(current_player_idx)
                  /\ UNCHANGED << current_player_idx, round_count >>
           /\ (call'.ret = "true" /\ phase = "playing" /\ phase' = "ended") =>
                  /\ winner_idx' = Some(current_player_idx)
                  /\ UNCHANGED << current_player_idx, round_count >>
           /\ call'.ret = "false" => UNCHANGED << current_player_idx, round_count >>]_vars

\* C27. Ended is absorbing and play is gated by the phase: whenever the phase
\* is not Playing, play_turn returns false, asks no player and changes nothing;
\* whenever the phase is not Bidding, bidding_phase returns false, asks no
\* player and changes nothing; so once the phase is Ended no play_turn or
\* bidding_phase call changes winner_idx, last_play, the hands, round_count or
\* the history.
C27_EndedAbsorbing ==
    [][/\ (call'.op = "play_turn" /\ phase # "playing") =>
              /\ call'.ret = "false"
              /\ call'.asked = <<>>
              /\ UNCHANGED game
       /\ (call'.op = "bidding_phase" /\ phase # "bidding") =>
              /\ call'.ret = "false"
              /\ call'.asked = <<>>
              /\ UNCHANGED game
       /\ (phase = "ended" /\ call'.op \in {"play_turn", "bidding_phase"}) =>
              /\ phase' = "ended"
              /\ UNCHANGED << winner_idx, last_play, hand, round_count, game_history >>]_vars

\* play_turn has been called on a game that had ended
C27_Witness ==
    /\ phase = "ended"
    /\ winner_idx # None
    /\ call.op = "play_turn"
    /\ call.ret = "false"

\* C28. Reading the result does not change it: on an ended game every
\* get_game_result call after the first returns the scores of the first and
\* leaves every player's score as the first call left it (a result has been
\* read when a score is not 0: every game starts with the scores at 0 and
\* nothing else writes a score); before the game has ended the call returns
\* an empty result and changes no score.
C28_ResultIdempotent ==
    [][call'.op = "get_game_result" =>
           /\ ~is_game_over => (call'.ret = "empty" /\ score' = score)
           /\ (is_game_over /\ \E i \in Seats : score[i] # 0) =>
                  (call'.ret = "result" /\ score' = score)]_vars

(***************************************************************************)
(* Properties of the shapes: the cards attached to an airplane             *)
(***************************************************************************)
\* C30. Airplane kickers have the shape the type names: a group classified
\* as TRIPLE_STRAIGHT_WITH_PAIRS is k >= 2 consecutive triples plus exactly k
\* pairs (every other value appears exactly twice); a group classified as
\* TRIPLE_STRAIGHT_WITH_SINGLES is k consecutive triples plus exactly k other
\* cards; and k consecutive triples plus 2k cards that are not all paired
\* (two triples plus four different single cards) classify as INVALID.
C30_AirplaneKickers ==
    rcall.op = "analyze_cards" =>
        LET count == ValueCounts(rcards)
            triples == {v \in DOMAIN count : count[v] = 3}
            others == {v \in DOMAIN count : count[v] > 0 /\ count[v] # 3}
            k == Cardinality(triples)
            paired == \A v \in others : count[v] = 2
        IN  /\ rcall.ret.card_type = "triple_straight_with_pairs" =>
                   /\ k >= 2
                   /\ IsRun(triples)
                   /\ paired
                   /\ Cardinality(others) = k
            /\ rcall.ret.card_type = "triple_straight_with_singles" =>
                   /\ k >= 2
                   /\ IsRun(triples)
                   /\ Len(rcards) = 3 * k + k
            /\ (k >= 2 /\ IsRun(triples) /\ Len(rcards) = 3 * k + 2 * k /\ ~paired)
                   => rcall.ret.card_type = "invalid"

(***************************************************************************)
(* Properties of the play: termination                                     *)
(***************************************************************************)
\* the entries of the history that play_turn logs for a pass or a play
TurnEntries ==
    SelectSeq(game_history, LAMBDA a : a.action_type \in {"pass", "play_cards"})

\* C29. The game ends if nobody declines to lead: from a Playing state on,
\* when every answer to play_turn is a pass or a move that play_turn accepts
\* and nobody passes while last_play is absent, at least one card leaves a
\* hand in every three consecutive play_turn calls, and phase Ended is reached
\* after finitely many calls.
C29_GameEnds ==
    /\ [](\A n \in 1..(Len(TurnEntries) - 2) :
              \E m \in n..(n + 2) : TurnEntries[m].cards # <<>>)
    /\ (phase = "playing" ~> phase = "ended")

=============================================================================
